---- MODULE Spec2Model ----
(***************************************************************************)
(* Model of ngumoe/discord-scraper.                                        *)
(*   src/discord_scraper.py          scraper + keyword filter + JSON dump  *)
(*   src/discord_scraper_gsheets.py  the same scraper, syncing the matches *)
(*                                   into a Google Sheet (the "sink")      *)
(* Processes are operating-system processes each running main().  The      *)
(* sheet is the one store they share.                                      *)
(***************************************************************************)
EXTENDS Integers, Sequences, FiniteSets, TLC

\* ------------------------------------------------------------------ bounds
\* number of messages in the history of the guild channel
HistLen == 3
\* largest page the modelled server hands out (it never exceeds `limit`)
ServerPageMax == 2
\* the wall clock saturates here
MaxTime == 7
\* the per-fetch request counter saturates here
MaxReq == 3
\* sink calls (get_all_records / find / append_row) that may fail in a behaviour
MaxSinkFaults == 1
\* the longest batch of messages handed to the keyword filter on its own
MaxBatch == 2

\* ------------------------------------------------------- program constants
Limit == 100
InitialRemaining == 5
InitialReset == 0
DefaultRemaining == 5
DefaultRetryAfter == 5
ContentMax == 500

Procs == {"p1", "p2"}
None == "None"

Max(a, b) == IF a >= b THEN a ELSE b
Min(a, b) == IF a <= b THEN a ELSE b
Clamp(t) == Min(t, MaxTime)
Sat(n) == Min(n, MaxReq)

\* a header that may be absent is the empty set or a singleton
HeaderGet(h, default) == IF h = {} THEN default ELSE CHOOSE v \in h : TRUE

\* ------------------------------------------------------------- the remote
\* text is a sequence of one-character strings
IdTable == <<"101", "102", "103", "104", "105", "106">>
ContentTable ==
  << <<"E", "x", "a", "m", " ", "T", "o", "m", "o", "r", "r", "o", "w", ",", " ",
       "s", "t", "u", "c", "k", " ", "o", "n">>,
     <<"h", "i">>,
     <<"U", "R", "G", "E", "N", "T">> >>

\* the n-th oldest message of the guild channel
Msg(n) ==
  [id |-> IdTable[n],
   timestamp |-> n,
   author |-> [username |-> "alice"],
   content |-> ContentTable[((n - 1) % 3) + 1],
   channel_id |-> "A"]

\* newest first, as the message-list endpoint orders them
History(c) ==
  IF c = "A" THEN [i \in 1..HistLen |-> Msg(HistLen + 1 - i)] ELSE <<>>

ChannelIds == {"A", "B"}

\* position of id in the history (0: not there)
IndexOf(h, id) ==
  IF \E i \in 1..Len(h) : h[i].id = id
  THEN CHOOSE i \in 1..Len(h) : h[i].id = id
  ELSE 0

\* the messages of channel c strictly older than `before` (all, when omitted)
Older(c, before) ==
  LET h == History(c)
  IN IF before = None THEN h ELSE SubSeq(h, IndexOf(h, before) + 1, Len(h))

\* the pages a 200 may carry for a request: the newest k of the older ones
Pages(c, before, limit) ==
  LET o == Older(c, before)
      m == Min(Min(limit, ServerPageMax), Len(o))
  IN IF m = 0 THEN {<<>>} ELSE {SubSeq(o, 1, k) : k \in 1..m}

\* GET /channels/{id} and GET /guilds/{id}, when they answer 200
ChannelData(c) ==
  IF c = "A" THEN [name |-> "general", guild_id |-> "G"]
  ELSE [name |-> "chat", guild_id |-> "DM"]

GuildData(g) == [name |-> "Study Hall"]

\* 200, another status, or no response at all
LookupOutcomes == {"200", "404", "failed"}
\* lookups that always answer 200
GoodLookups == {"200"}

RemainingHeaders == {{}, {0}}
ResetAfterHeaders == {{}, {2}}
RetryAfterHeaders == {{}, {1}}

\* what may come back for a request; failed = TRUE is a transport-level
\* failure (no response object at all)
Responses(c, before, limit) ==
  {[failed |-> FALSE, status |-> 200, page |-> pg, remaining |-> rem,
    reset_after |-> ra, retry_after |-> {}] :
      pg \in Pages(c, before, limit), rem \in RemainingHeaders,
      ra \in ResetAfterHeaders}
  \cup
  {[failed |-> FALSE, status |-> 429, page |-> <<>>, remaining |-> rem,
    reset_after |-> ra, retry_after |-> rt] :
      rem \in RemainingHeaders, ra \in ResetAfterHeaders,
      rt \in RetryAfterHeaders}
  \cup
  {[failed |-> FALSE, status |-> 500, page |-> <<>>, remaining |-> rem,
    reset_after |-> ra, retry_after |-> {}] :
      rem \in RemainingHeaders, ra \in ResetAfterHeaders}
  \cup
  {[failed |-> TRUE, status |-> 0, page |-> <<>>, remaining |-> {},
    reset_after |-> {}, retry_after |-> {}]}

\* the same remote when it sends no reset-after header
QuietResponses(c, before, limit) ==
  {r \in Responses(c, before, limit) : r.reset_after = {}}

\* ... and no remaining-budget header, and does not throttle either
CalmResponses(c, before, limit) ==
  {r \in QuietResponses(c, before, limit) :
     r.remaining = {} /\ r.status # 429}

\* ... and answers every request with a 200 carrying the largest page
BestResponses(c, before, limit) ==
  {r \in CalmResponses(c, before, limit) :
     /\ r.status = 200
     /\ \A q \in Pages(c, before, limit) : Len(q) <= Len(r.page)}

\* the remote by the way it behaves
Remote(behaviour, c, before, limit) ==
  CASE behaviour = "any" -> Responses(c, before, limit)
    [] behaviour = "quiet" -> QuietResponses(c, before, limit)
    [] behaviour = "calm" -> CalmResponses(c, before, limit)
    [] behaviour = "best" -> BestResponses(c, before, limit)

NoResponse ==
  [failed |-> FALSE, status |-> 0, page |-> <<>>, remaining |-> {},
   reset_after |-> {}, retry_after |-> {}, at |-> 0]
\* a request: what it asks for, when it is sent (at), and how long the pacing
\* at the top of the loop slept before it (paced)
NoRequest ==
  [channel |-> None, limit |-> 0, before |-> None, at |-> 0, paced |-> 0]


\* --------------------------------------------------------- KeywordFilter
UpperChars ==
  <<"A", "B", "C", "D", "E", "F", "G", "H", "I", "J", "K", "L", "M",
    "N", "O", "P", "Q", "R", "S", "T", "U", "V", "W", "X", "Y", "Z">>
LowerChars ==
  <<"a", "b", "c", "d", "e", "f", "g", "h", "i", "j", "k", "l", "m",
    "n", "o", "p", "q", "r", "s", "t", "u", "v", "w", "x", "y", "z">>

LowerChar(c) ==
  IF \E i \in 1..26 : UpperChars[i] = c
  THEN LowerChars[CHOOSE i \in 1..26 : UpperChars[i] = c]
  ELSE c

\* str.lower()
Lower(s) == [i \in 1..Len(s) |-> LowerChar(s[i])]

\* `k in content` on strings
Contains(content, k) ==
  \E i \in 0..(Len(content) - Len(k)) : SubSeq(content, i + 1, i + Len(k)) = k

\* a part of TUTORING_KEYWORDS, in the order of the list
TUTORING_KEYWORDS ==
  << <<"u", "r", "g", "e", "n", "t">>,
     <<"e", "x", "a", "m", " ", "t", "o", "m", "o", "r", "r", "o", "w">>,
     <<"s", "t", "u", "c", "k", " ", "o", "n">>,
     <<"G", "I", "S", " ", "t", "u", "t", "o", "r">> >>

\* KeywordFilter.__init__
Keywords(kws) == [i \in 1..Len(kws) |-> Lower(kws[i])]

\* the comprehension stopping at the first keyword found
MatchedKeywords_First(keywords, content) ==
  LET hits == SelectSeq(keywords, LAMBDA k : Contains(content, k))
  IN IF hits = <<>> THEN <<>> ELSE <<hits[1]>>

\* [k for k in self.keywords if k in content]
RECURSIVE MatchedKeywords(_, _)
MatchedKeywords(keywords, content) ==
  IF keywords = <<>> THEN <<>>
  ELSE (IF Contains(content, Head(keywords)) THEN <<Head(keywords)>> ELSE <<>>)
       \o MatchedKeywords(Tail(keywords), content)

\* KeywordFilter.filter_messages
RECURSIVE filter_messages(_, _)
filter_messages(keywords, msgs) ==
  IF msgs = <<>> THEN <<>>
  ELSE LET message == Head(msgs)
           content == Lower(message.content)
           rest == filter_messages(keywords, Tail(msgs))
       IN IF \E i \in 1..Len(keywords) : Contains(content, keywords[i])
          THEN <<[matched_keywords |-> MatchedKeywords(keywords, content)]
                   @@ message>> \o rest
          ELSE rest

\* ------------------------------------------------------- configuration
UrlA == <<"https:", "", "discord.com", "channels", "G", "A">>
UrlB == <<"B">>
Blank == <<"">>
Space == <<" ">>

\* CHANNEL_URLS split at the commas; a URL is its "/"-separated parts
RawUrlLists == {<<Blank>>, <<Space>>, <<UrlA>>, <<UrlB, Blank, UrlA>>}
Tokens == {"", "token"}
SheetIds == {"", "sheet"}
\* MAX_MESSAGES: 0 (no cap) or a cap below the length of the history
Caps == {0, 2}

\* what the environment variables of a run may hold
Configs ==
  [token : Tokens, raw : RawUrlLists, sheet_id : SheetIds, max_messages : Caps]

\* url.strip() is empty
IsBlank(url) == url \in {Blank, Space}

extract_channel_id(channel_url) ==
  IF \E i \in 2..(Len(channel_url) - 1) : channel_url[i] = "channels"
  THEN channel_url[Len(channel_url)]
  ELSE channel_url[1]


\* ------------------------------------------------------------------ state
VARIABLES
  sheet,    \* the rows of the shared worksheet, in order
  now,      \* time.time()
  main,     \* per process: the locals of main()
  scraper,  \* per process: the DiscordScraper object
  fetch,    \* per process: the locals of the running fetch_messages call
  obs       \* what an observer of the sink has seen so far

vars == <<sheet, now, main, scraper, fetch, obs>>

\* last_sync: the latest completed add_message loop in which no sink call
\* failed (ok), the ids it was given, what it counted as written, the number
\* of message rows it left in the sheet, and (repeat) whether the loop before
\* it was such a loop over the same ids, with the rows that one left
NoSync ==
  [ok |-> FALSE, ids |-> {}, count |-> 0, data |-> 0,
   repeat |-> FALSE, prev_data |-> 0]

NoObs ==
  [faults |-> 0, find_failed |-> FALSE, raced |-> FALSE,
   last_sync |-> NoSync]

NoChannelInfo == [name |-> None, guild_id |-> None, guild_name |-> None]

IdleMain ==
  [pc |-> "idle", prog |-> "none", outcome |-> "none", urls |-> <<>>,
   max_messages |-> 0, token |-> "", channel_id |-> None,
   channel_info |-> NoChannelInfo, filtered_messages |-> <<>>, k |-> 0,
   all_filtered_messages |-> <<>>,
   new_messages_count |-> 0, total_messages_processed |-> 0,
   count0 |-> 0, sync_ok |-> TRUE, seen_rows |-> 0, errors |-> 0,
   lookups |-> <<>>]

\* DiscordScraper.__init__
NewScraper ==
  [rate_limit_remaining |-> InitialRemaining, rate_limit_reset |-> InitialReset]

\* the first lines of fetch_messages
NewFetch ==
  [messages |-> <<>>, before_id |-> None, nreq |-> 0, all200 |-> TRUE,
   req |-> NoRequest, rsp |-> NoResponse, prev_status |-> 0]

\* ------------------------------------------------- DiscordScraper.fetch_messages
\* the loop without its pacing
PacingSleep_Never(s, t) == 0

\* the pacing at the top of the loop: how long to sleep before sending
PacingSleep(s, t) ==
  IF s.rate_limit_remaining <= 0 THEN Max(0, s.rate_limit_reset - t) ELSE 0

\* params of the page request; None stands for "no before key"
RequestParams(before_id) ==
  [limit |-> Limit, before |-> IF before_id # None THEN before_id ELSE None]

\* the header reads keeping the old budget when the header is absent
Observe_KeepRemaining(s, rsp, t) ==
  [rate_limit_remaining |->
     IF rsp.remaining = {} THEN s.rate_limit_remaining
     ELSE HeaderGet(rsp.remaining, DefaultRemaining),
   rate_limit_reset |->
     IF rsp.reset_after # {}
     THEN t + HeaderGet(rsp.reset_after, 0)
     ELSE s.rate_limit_reset]

\* the two header reads after a response arrived at time t
Observe(s, rsp, t) ==
  [rate_limit_remaining |-> HeaderGet(rsp.remaining, DefaultRemaining),
   rate_limit_reset |->
     IF rsp.reset_after # {}
     THEN t + HeaderGet(rsp.reset_after, 0)
     ELSE s.rate_limit_reset]

\* the cursor taken from the top of the page
NextBeforeId_First(new_messages) == new_messages[1].id

\* before_id = new_messages[-1]["id"]
NextBeforeId(new_messages) == new_messages[Len(new_messages)].id

\* the cap test off by one
CapReached_Strict(msgs, max_messages) ==
  max_messages # 0 /\ Len(msgs) > max_messages

CapReached(msgs, max_messages) ==
  max_messages # 0 /\ Len(msgs) >= max_messages

Truncate(msgs, max_messages) == SubSeq(msgs, 1, max_messages)

RetryDelay(rsp) == HeaderGet(rsp.retry_after, DefaultRetryAfter)

\* HandleResponse's branches with one slip each
OnEmptyPage_Continue(msgs, before_id) ==
  [messages |-> msgs, before_id |-> before_id, ctl |-> "continue", sleep |-> 0]

OnEmptyPage_Raise(msgs, before_id) ==
  [messages |-> msgs, before_id |-> before_id, ctl |-> "raise", sleep |-> 0]

OnThrottled_NoSleep(msgs, before_id, rsp) ==
  [messages |-> msgs, before_id |-> before_id, ctl |-> "continue", sleep |-> 0]

OnOtherStatus_Drop(msgs, before_id) ==
  [messages |-> <<>>, before_id |-> before_id, ctl |-> "break", sleep |-> 0]

\* Each branch of the loop body yields the new locals, what the loop does
\* next (ctl) and how long the branch sleeps.
OnEmptyPage(msgs, before_id) ==
  [messages |-> msgs, before_id |-> before_id, ctl |-> "break", sleep |-> 0]

\* the page put in front of the messages gathered so far
OnPage_Prepend(msgs, new_messages, max_messages) ==
  LET extended == new_messages \o msgs
  IN IF CapReached(extended, max_messages)
     THEN [messages |-> Truncate(extended, max_messages),
           before_id |-> NextBeforeId(new_messages), ctl |-> "break", sleep |-> 0]
     ELSE [messages |-> extended,
           before_id |-> NextBeforeId(new_messages), ctl |-> "continue", sleep |-> 0]

OnPage(msgs, new_messages, max_messages) ==
  LET extended == msgs \o new_messages
  IN IF CapReached(extended, max_messages)
     THEN [messages |-> Truncate(extended, max_messages),
           before_id |-> NextBeforeId(new_messages), ctl |-> "break", sleep |-> 0]
     ELSE [messages |-> extended,
           before_id |-> NextBeforeId(new_messages), ctl |-> "continue", sleep |-> 0]

OnThrottled(msgs, before_id, rsp) ==
  [messages |-> msgs, before_id |-> before_id, ctl |-> "continue",
   sleep |-> RetryDelay(rsp)]

OnOtherStatus(msgs, before_id) ==
  [messages |-> msgs, before_id |-> before_id, ctl |-> "break", sleep |-> 0]

OnRequestFailed(msgs, before_id) ==
  [messages |-> msgs, before_id |-> before_id, ctl |-> "break", sleep |-> 0]

HandleResponse(msgs, before_id, rsp, max_messages) ==
  IF rsp.failed THEN OnRequestFailed(msgs, before_id)
  ELSE IF rsp.status = 200
       THEN IF rsp.page = <<>>
            THEN OnEmptyPage(msgs, before_id)
            ELSE OnPage(msgs, rsp.page, max_messages)
       ELSE IF rsp.status = 429
            THEN OnThrottled(msgs, before_id, rsp)
            ELSE OnOtherStatus(msgs, before_id)

\* what the loop's exit hands to the caller
AfterLoop(ctl) ==
  IF ctl = "continue" THEN "fetch"
  ELSE IF ctl = "break" THEN "fetched" ELSE "raised"

\* one iteration of the while loop: pace, send, receive, react, against a
\* remote of the given behaviour
FetchIteration(p, behaviour) ==
  /\ main[p].pc = "fetch"
  /\ LET s == scraper[p]
         f == fetch[p]
         sleep_time == PacingSleep(s, now)
         sentAt == Clamp(now + sleep_time)
         params == RequestParams(f.before_id)
     IN \E rsp \in Remote(behaviour, main[p].channel_id, params.before,
                         params.limit) :
          LET gotAt == sentAt
              r == HandleResponse(f.messages, f.before_id, rsp,
                                  main[p].max_messages)
          IN /\ scraper' = [scraper EXCEPT ![p] =
                              IF rsp.failed THEN s ELSE Observe(s, rsp, gotAt)]
             /\ fetch' = [fetch EXCEPT ![p] =
                  [messages |-> r.messages,
                   before_id |-> r.before_id,
                   nreq |-> Sat(f.nreq + 1),
                   req |-> [channel |-> main[p].channel_id, limit |-> params.limit,
                            before |-> params.before, at |-> sentAt,
                            paced |-> sentAt - now],
                   rsp |-> [at |-> gotAt] @@ rsp,
                   prev_status |-> f.rsp.status,
                   all200 |-> f.all200 /\ ~rsp.failed /\ rsp.status = 200]]
             /\ now' = Clamp(gotAt + r.sleep)
             /\ main' = [main EXCEPT ![p].pc = AfterLoop(r.ctl)]
  /\ UNCHANGED <<sheet, obs>>

FetchStep(p) == FetchIteration(p, "any")

FetchStepQuiet(p) == FetchIteration(p, "quiet")


\* ------------------------------------------------ discord_scraper.py: main
TUTORING_KEYWORDS_JSON == SubSeq(TUTORING_KEYWORDS, 1, 3)

\* the two early returns of main; the second tests CHANNEL_URLS[0] as it is
JsonConfigOk(token, raw) == token # "" /\ raw # <<>> /\ raw[1] # Blank

JStart(p) ==
  /\ main[p].pc = "idle"
  /\ main[p].outcome = "none"
  /\ \E token \in Tokens, raw \in RawUrlLists, cap \in Caps :
       IF JsonConfigOk(token, raw)
       THEN main' = [main EXCEPT ![p] =
                       [IdleMain EXCEPT !.pc = "j_loop", !.prog = "json",
                                        !.urls = raw, !.token = token,
                                        !.max_messages = cap]]
       ELSE main' = [main EXCEPT ![p] =
                       [IdleMain EXCEPT !.prog = "json", !.outcome = "rejected"]]
  /\ scraper' = [scraper EXCEPT ![p] = NewScraper]
  /\ fetch' = [fetch EXCEPT ![p] = NewFetch]
  /\ UNCHANGED <<sheet, now, obs>>

\* the head of `for channel_url in CHANNEL_URLS`, up to the fetch_messages call
JLoop(p) ==
  /\ main[p].pc = "j_loop"
  /\ LET m == main[p]
     IN IF m.urls = <<>>
        THEN main' = [main EXCEPT ![p].pc = "j_save"]
        ELSE IF IsBlank(Head(m.urls))
             THEN main' = [main EXCEPT ![p].urls = Tail(m.urls)]
             ELSE main' = [main EXCEPT ![p].urls = Tail(m.urls),
                                       ![p].channel_id =
                                          extract_channel_id(Head(m.urls)),
                                       ![p].pc = "fetch"]
  /\ fetch' = [fetch EXCEPT ![p] = NewFetch]
  /\ UNCHANGED <<sheet, now, scraper, obs>>

\* the rest of the try block, or its except branch
JAfterFetch(p) ==
  /\ main[p].prog = "json"
  /\ main[p].pc \in {"fetched", "raised"}
  /\ main' = [main EXCEPT
       ![p].pc = "j_loop",
       ![p].all_filtered_messages =
          IF main[p].pc = "fetched"
          THEN @ \o filter_messages(Keywords(TUTORING_KEYWORDS_JSON),
                                    fetch[p].messages)
          ELSE @]
  /\ fetch' = [fetch EXCEPT ![p] = NewFetch]
  /\ UNCHANGED <<sheet, now, scraper, obs>>

\* the dump of the matches to discord_messages.json
JSave(p) ==
  /\ main[p].pc = "j_save"
  /\ main' = [main EXCEPT ![p] =
       [IdleMain EXCEPT !.prog = "json", !.outcome = "complete",
                        !.total_messages_processed =
                           Len(main[p].all_filtered_messages)]]
  /\ UNCHANGED <<sheet, now, scraper, fetch, obs>>

\* -------------------------------------------------- GoogleSheetsManager
HEADERS ==
  <<"Message ID", "Timestamp", "Author", "Content", "Keywords",
    "Channel ID", "Server ID", "Channel Name", "Server Name",
    "Response Status", "Response Sent", "Response Content">>

\* worksheet.get_all_records(): the rows below the first, keyed by the first
GetAllRecords(rows) == IF Len(rows) <= 1 THEN <<>> ELSE Tail(rows)

\* __init__: whether the header row is to be appended
HeadersMissing(rows) == GetAllRecords(rows) = <<>>

\* find that stops one row short
Find_SkipsLast(rows, message_id) ==
  \E i \in 1..(Len(rows) - 1) : rows[i][1] = message_id

\* worksheet.find(message_id, in_column=1) is not None
Find(rows, message_id) == \E i \in 1..Len(rows) : rows[i][1] = message_id

\* message_exists with slips
message_exists_LastRow(rows, message_id, found_ok) ==
  found_ok /\ rows # <<>> /\ rows[Len(rows)][1] = message_id

message_exists_Never(rows, message_id, found_ok) == FALSE

\* a lookup that raises taken for a hit
message_exists_FailFound(rows, message_id, found_ok) ==
  IF found_ok THEN Find(rows, message_id) ELSE TRUE

\* message_exists; found_ok is FALSE when the lookup raises
message_exists(rows, message_id, found_ok) ==
  IF found_ok THEN Find(rows, message_id) ELSE FALSE

\* message.get(key, default) for the keys a message may lack
GuildIdOf(message) ==
  IF "guild_id" \in DOMAIN message THEN message.guild_id ELSE "DM"

MatchedOf(message) ==
  IF "matched_keywords" \in DOMAIN message THEN message.matched_keywords ELSE <<>>

\* the row add_message builds; the keywords column holds the list it joins
Row(message, channel_info) ==
  <<message.id,
    message.timestamp,
    message.author.username,
    SubSeq(message.content, 1, Min(Len(message.content), ContentMax)),
    MatchedOf(message),
    message.channel_id,
    GuildIdOf(message),
    channel_info.name,
    channel_info.guild_name,
    "Pending", "", "">>

IsHeaderRow(row) == row[1] = HEADERS[1]
DataRows(rows) == {i \in 1..Len(rows) : ~IsHeaderRow(rows[i])}
HeaderRows(rows) == {i \in 1..Len(rows) : IsHeaderRow(rows[i])}
Ids(rows) == {rows[i][1] : i \in DataRows(rows)}
IdsOf(msgs) == {msgs[i].id : i \in 1..Len(msgs)}

\* ---------------------------------------------------------- get_channel_info
\* get_channel_info asking for the guild whatever the channel is
get_channel_info_AlwaysGuild(channel_id, ch, g) ==
  IF ch = "failed" THEN [raised |-> TRUE, lookups |-> 1, info |-> NoChannelInfo]
  ELSE IF ch # "200"
       THEN [raised |-> FALSE, lookups |-> 1,
             info |-> [name |-> "Unknown", guild_name |-> "Unknown",
                       guild_id |-> "DM"]]
       ELSE LET d == ChannelData(channel_id)
            IN IF g = "failed"
               THEN [raised |-> TRUE, lookups |-> 2, info |-> NoChannelInfo]
               ELSE [raised |-> FALSE, lookups |-> 2,
                     info |-> [name |-> d.name, guild_id |-> d.guild_id,
                               guild_name |->
                                 IF g = "200" THEN GuildData(d.guild_id).name
                                 ELSE "Unknown"]]

\* ch, g: how the channel lookup and the guild lookup end
get_channel_info(channel_id, ch, g) ==
  IF ch = "failed" THEN [raised |-> TRUE, lookups |-> 1, info |-> NoChannelInfo]
  ELSE IF ch # "200"
       THEN [raised |-> FALSE, lookups |-> 1,
             info |-> [name |-> "Unknown", guild_name |-> "Unknown",
                       guild_id |-> "DM"]]
       ELSE LET d == ChannelData(channel_id)
            IN IF d.guild_id = "DM"
               THEN [raised |-> FALSE, lookups |-> 1,
                     info |-> [name |-> d.name, guild_id |-> "DM",
                               guild_name |-> "DM"]]
               ELSE IF g = "failed"
                    THEN [raised |-> TRUE, lookups |-> 2, info |-> NoChannelInfo]
                    ELSE [raised |-> FALSE, lookups |-> 2,
                          info |-> [name |-> d.name, guild_id |-> d.guild_id,
                                    guild_name |->
                                      IF g = "200" THEN GuildData(d.guild_id).name
                                      ELSE "Unknown"]]

\* ------------------------------------------ discord_scraper_gsheets.py: main
\* CHANNEL_URLS_LIST
RECURSIVE NonBlank(_)
NonBlank(raw) ==
  IF raw = <<>> THEN <<>>
  ELSE (IF IsBlank(Head(raw)) THEN <<>> ELSE <<Head(raw)>>) \o NonBlank(Tail(raw))

\* the validation without its test of the channel list
SheetsConfigOk_NoUrlCheck(token, urls, sheet_id) ==
  token # "" /\ sheet_id # ""

\* all([DISCORD_TOKEN, CHANNEL_URLS_LIST, GOOGLE_SHEET_ID])
SheetsConfigOk(token, urls, sheet_id) ==
  token # "" /\ urls # <<>> /\ sheet_id # ""

Faulty == obs.faults < MaxSinkFaults
Fault(o) == [o EXCEPT !.faults = @ + 1]

\* main up to the construction of the scraper and the filter, started with one
\* of the configurations Cfgs; a process runs main once
StartMain(p, Cfgs) ==
  /\ main[p].pc = "idle"
  /\ main[p].outcome = "none"
  /\ \E c \in Cfgs :
       IF SheetsConfigOk(c.token, NonBlank(c.raw), c.sheet_id)
       THEN main' = [main EXCEPT ![p] =
                       [IdleMain EXCEPT !.pc = "mgr", !.prog = "gsheets",
                                        !.urls = NonBlank(c.raw),
                                        !.token = c.token,
                                        !.max_messages = c.max_messages]]
       ELSE main' = [main EXCEPT ![p] =
                       [IdleMain EXCEPT !.prog = "gsheets",
                                        !.outcome = "rejected"]]
  /\ scraper' = [scraper EXCEPT ![p] = NewScraper]
  /\ fetch' = [fetch EXCEPT ![p] = NewFetch]
  /\ UNCHANGED <<sheet, now, obs>>

\* a run that starts when no other is under way, p2's after p1's
InTurn(p) ==
  /\ \A q \in Procs \ {p} : main[q].pc = "idle"
  /\ p = "p1" \/ main["p1"].outcome # "none"

GStartInTurn(p) == InTurn(p) /\ StartMain(p, Configs)

\* the configurations that scrape the guild channel alone, and to its end
FullScrapes ==
  {c \in Configs : /\ SheetsConfigOk(c.token, NonBlank(c.raw), c.sheet_id)
                   /\ c.max_messages = 0
                   /\ c.raw = <<UrlA>>}

GStartFull(p) == StartMain(p, FullScrapes)

\* GoogleSheetsManager.__init__ up to the get_all_records call; when it raises
\* main prints the error and returns
GMgrRecords(p) ==
  /\ main[p].pc = "mgr"
  /\ \/ /\ main' = [main EXCEPT ![p].pc =
                      IF HeadersMissing(sheet) THEN "mgr_headers" ELSE "g_loop"]
        /\ obs' = obs
     \/ /\ Faulty
        /\ main' = [main EXCEPT ![p] =
                      [IdleMain EXCEPT !.prog = "gsheets", !.outcome = "sink_error"]]
        /\ obs' = Fault(obs)
  /\ UNCHANGED <<sheet, now, scraper, fetch>>

\* self.sheet.append_row(headers)
GMgrHeaders(p) ==
  /\ main[p].pc = "mgr_headers"
  /\ \/ /\ sheet' = Append(sheet, HEADERS)
        /\ main' = [main EXCEPT ![p].pc = "g_loop"]
        /\ obs' = obs
     \/ /\ Faulty
        /\ sheet' = sheet
        /\ main' = [main EXCEPT ![p] =
                      [IdleMain EXCEPT !.prog = "gsheets", !.outcome = "sink_error"]]
        /\ obs' = Fault(obs)
  /\ UNCHANGED <<now, scraper, fetch>>

\* the head of `for channel_url in CHANNEL_URLS_LIST`, and the final prints
GLoop(p) ==
  /\ main[p].pc = "g_loop"
  /\ LET m == main[p]
     IN IF m.urls = <<>>
        THEN main' = [main EXCEPT ![p] =
               [IdleMain EXCEPT !.pc = "report", !.prog = "gsheets",
                                !.new_messages_count = m.new_messages_count,
                                !.total_messages_processed =
                                   m.total_messages_processed,
                                !.errors = m.errors]]
        ELSE main' = [main EXCEPT ![p].urls = Tail(m.urls),
                                  ![p].channel_id =
                                     extract_channel_id(Head(m.urls)),
                                  ![p].pc = "info"]
  /\ UNCHANGED <<sheet, now, scraper, fetch, obs>>

\* main returns after the final prints and the process is gone
GReturn(p) ==
  /\ main[p].pc = "report"
  /\ main' = [main EXCEPT ![p] =
       [IdleMain EXCEPT !.prog = "gsheets", !.outcome = "complete"]]
  /\ UNCHANGED <<sheet, now, scraper, fetch, obs>>

\* channel_info = await get_channel_info(...); a raise lands in the except
\* branch of the loop body; Outcomes: how a lookup may end
ResolveChannel(p, Outcomes) ==
  /\ main[p].pc = "info"
  /\ \E ch \in Outcomes, g \in Outcomes :
       LET r == get_channel_info(main[p].channel_id, ch, g)
       IN main' = [main EXCEPT
            ![p].pc = IF r.raised THEN "g_loop" ELSE "fetch",
            ![p].errors = IF r.raised THEN @ + 1 ELSE @,
            ![p].lookups = IF r.lookups = 1 THEN <<ch>> ELSE <<ch, g>>,
            ![p].channel_info = r.info]
  /\ fetch' = [fetch EXCEPT ![p] = NewFetch]
  /\ UNCHANGED <<sheet, now, scraper, obs>>

GChannelInfo(p) == ResolveChannel(p, LookupOutcomes)

\* the loop over the channels given up after the first channel with matches
AfterAdd_StopRun(msgs, k) == IF k >= Len(msgs) THEN "report" ELSE "add"

\* every add_message call counted, whatever it returns
Counted_Always(count, added) == count + 1

\* if sheets_manager.add_message(message, channel_info): new_messages_count += 1
Counted(count, added) == IF added THEN count + 1 ELSE count

\* where the for loop over filtered_messages stands after k of them
AfterAdd(msgs, k) == IF k >= Len(msgs) THEN "g_loop" ELSE "add"

\* the record of a sync (the add_message loop of one channel) that just ended
SyncDone(o, m, rows, count) ==
  LET prev == o.last_sync
      ids == IdsOf(m.filtered_messages)
  IN [o EXCEPT !.last_sync =
        IF m.sync_ok
        THEN [ok |-> TRUE, ids |-> ids, count |-> count - m.count0,
              data |-> Cardinality(DataRows(rows)),
              repeat |-> prev.ok /\ prev.ids = ids,
              prev_data |-> IF prev.ok /\ prev.ids = ids THEN prev.data ELSE 0]
        ELSE NoSync]

\* filter_messages and the counters, up to the first add_message call
GAfterFetch(p) ==
  /\ main[p].prog = "gsheets"
  /\ main[p].pc \in {"fetched", "raised"}
  /\ LET m == main[p]
         filtered == filter_messages(Keywords(TUTORING_KEYWORDS), fetch[p].messages)
         m2 == [m EXCEPT !.filtered_messages = filtered, !.k = 0,
                         !.total_messages_processed = @ + Len(filtered),
                         !.count0 = m.new_messages_count, !.sync_ok = TRUE,
                         !.pc = AfterAdd(filtered, 0)]
     IN IF m.pc = "raised"
        THEN /\ main' = [main EXCEPT ![p].pc = "g_loop", ![p].errors = @ + 1]
             /\ obs' = obs
        ELSE /\ main' = [main EXCEPT ![p] = m2]
             /\ obs' = IF m2.pc = "g_loop"
                       THEN SyncDone(obs, m2, sheet, m2.new_messages_count)
                       ELSE obs
  /\ fetch' = [fetch EXCEPT ![p] = NewFetch]
  /\ UNCHANGED <<sheet, now, scraper>>

\* add_message up to the append_row call: the id test and message_exists
GAddCheck(p) ==
  /\ main[p].pc = "add"
  /\ LET m == main[p]
         message == m.filtered_messages[m.k + 1]
     IN \E found_ok \in {TRUE} \cup (IF Faulty THEN {FALSE} ELSE {}) :
          LET skip == message.id = "" \/ message_exists(sheet, message.id, found_ok)
              m2 == [m EXCEPT !.k = IF skip THEN @ + 1 ELSE @,
                              !.sync_ok = @ /\ found_ok,
                              !.seen_rows = Len(sheet),
                              !.pc = IF skip
                                     THEN AfterAdd(m.filtered_messages, m.k + 1)
                                     ELSE "append"]
              o2 == IF found_ok THEN obs
                    ELSE [Fault(obs) EXCEPT !.find_failed = TRUE]
          IN /\ main' = [main EXCEPT ![p] = m2]
             /\ obs' = IF m2.pc = "g_loop"
                       THEN SyncDone(o2, m2, sheet, m2.new_messages_count)
                       ELSE o2
  /\ UNCHANGED <<sheet, now, scraper, fetch>>

\* the rest of add_message: build the row, append_row, and main's counter
GAddAppend(p) ==
  /\ main[p].pc = "append"
  /\ LET m == main[p]
         message == m.filtered_messages[m.k + 1]
         next == AfterAdd(m.filtered_messages, m.k + 1)
     IN \E append_ok \in {TRUE} \cup (IF Faulty THEN {FALSE} ELSE {}) :
          LET rows == IF append_ok
                      THEN Append(sheet, Row(message, m.channel_info))
                      ELSE sheet
              m2 == [m EXCEPT !.k = @ + 1,
                              !.sync_ok = @ /\ append_ok,
                              !.new_messages_count = Counted(@, append_ok),
                              !.pc = next]
              stale == /\ append_ok
                       /\ message.id \in Ids(sheet)
                       /\ message.id \notin Ids(SubSeq(sheet, 1, m.seen_rows))
              o2 == [(IF append_ok THEN obs ELSE Fault(obs))
                       EXCEPT !.raced = @ \/ stale]
          IN /\ sheet' = rows
             /\ main' = [main EXCEPT ![p] = m2]
             /\ obs' = IF next = "g_loop"
                       THEN SyncDone(o2, m2, rows, m2.new_messages_count)
                       ELSE o2
  /\ UNCHANGED <<now, scraper, fetch>>

\* ------------------------------------------------------------ specifications
Init ==
  /\ sheet = <<>>
  /\ now = 1
  /\ main = [p \in Procs |-> IdleMain]
  /\ scraper = [p \in Procs |-> NewScraper]
  /\ fetch = [p \in Procs |-> NewFetch]
  /\ obs = NoObs

\* discord_scraper.py, one process
FetchNext ==
  \/ JStart("p1")
  \/ JLoop("p1")
  \/ FetchStep("p1")
  \/ JAfterFetch("p1")
  \/ JSave("p1")

FetchSpec == Init /\ [][FetchNext]_vars

\* discord_scraper_gsheets.py, run by one process after the other, against a
\* remote that neither throttles nor sends rate-limit headers
FetchStepCalm(p) == FetchIteration(p, "calm")

Next ==
  \E p \in Procs :
    \/ GStartInTurn(p)
    \/ GMgrRecords(p)
    \/ GMgrHeaders(p)
    \/ GLoop(p)
    \/ GReturn(p)
    \/ GChannelInfo(p)
    \/ FetchStepCalm(p)
    \/ GAfterFetch(p)
    \/ GAddCheck(p)
    \/ GAddAppend(p)

Spec == Init /\ [][Next]_vars

\* two processes running it at once against the same sheet, each scraping
\* the guild channel alone and to its end, and a remote that answers every request
\* with 200
FetchStepBest(p) == FetchIteration(p, "best")

GChannelInfoGood(p) == ResolveChannel(p, GoodLookups)

ConcNext ==
  \E p \in Procs :
    \/ GStartFull(p)
    \/ GMgrRecords(p)
    \/ GMgrHeaders(p)
    \/ GLoop(p)
    \/ GReturn(p)
    \/ GChannelInfoGood(p)
    \/ FetchStepBest(p)
    \/ GAfterFetch(p)
    \/ GAddCheck(p)
    \/ GAddAppend(p)

ConcSpec == Init /\ [][ConcNext]_vars

\* the filter on its own: discord_scraper_gsheets.py from the point where
\* fetch_messages has returned a batch, a single page as long as the cap, of
\* messages with any of these texts
FilterContents ==
  {<<>>,
   <<"h", "i">>,
   <<"U", "r", "G", "e", "n", "t", "!">>,
   <<"g", "i", "s", " ", "T", "U", "T", "O", "R">>,
   <<"s", "t", "u", "c", "k", " ", "o">>,
   <<"S", "t", "u", "c", "k", " ", "o", "n", ",", " ", "U", "R", "G", "E", "N", "T">>}

Batches ==
  UNION {{[i \in 1..n |-> [Msg(n + 1 - i) EXCEPT !.content = f[i]]] :
            f \in [1..n -> FilterContents]} : n \in 0..MaxBatch}

FilterInit ==
  /\ sheet = <<HEADERS>>
  /\ now = 1
  /\ scraper = [p \in Procs |-> NewScraper]
  /\ obs = NoObs
  /\ \E b \in Batches :
       /\ main = [p \in Procs |->
            IF p = "p1"
            THEN [IdleMain EXCEPT
                    !.pc = "fetched", !.prog = "gsheets", !.token = "token",
                    !.max_messages = Len(b), !.channel_id = "A",
                    !.channel_info = get_channel_info("A", "200", "200").info]
            ELSE IdleMain]
       /\ fetch = [p \in Procs |->
            IF p = "p1"
            THEN [NewFetch EXCEPT
                    !.messages = b,
                    !.before_id = IF b = <<>> THEN None ELSE NextBeforeId(b),
                    !.nreq = 1,
                    !.req = [channel |-> "A", limit |-> Limit,
                             before |-> None, at |-> 1, paced |-> 0],
                    !.rsp = [failed |-> FALSE, status |-> 200, page |-> b,
                             remaining |-> {}, reset_after |-> {},
                             retry_after |-> {}, at |-> 1]]
            ELSE NewFetch]

FilterNext ==
  \/ GAfterFetch("p1")
  \/ GAddCheck("p1")
  \/ GAddAppend("p1")
  \/ GLoop("p1")
  \/ GReturn("p1")

FilterSpec == FilterInit /\ [][FilterNext]_vars

\* discord_scraper.py against a remote that sends no reset-after header
LiveNext ==
  \/ JStart("p1")
  \/ JLoop("p1")
  \/ FetchStepQuiet("p1")
  \/ JAfterFetch("p1")
  \/ JSave("p1")

\* the event loop runs whatever is runnable: the process never just stops
LiveSpec == Init /\ [][LiveNext]_vars /\ WF_vars(LiveNext)


\* ------------------------------------------------- claims on fetch_messages
Fetching(p) == main[p].pc = "fetch"
Returned(p) == main[p].pc = "fetched"
LastWasError(f) == f.rsp.failed \/ (f.nreq > 0 /\ f.rsp.status \notin {200, 429})

\* C4: a fetch that is answered with 200 pages only does not go on for ever:
\* it is not the case that from some point on the loop is running and every
\* response so far was a 200.
C4_PaginationTerminates ==
  (Fetching("p1") /\ fetch["p1"].all200)
    ~> (~Fetching("p1") \/ ~fetch["p1"].all200)

\* the whole history was walked, in three or more requests, on 200s alone
C4_Witness ==
  /\ Returned("p1") /\ fetch["p1"].all200
  /\ main["p1"].max_messages = 0
  /\ fetch["p1"].nreq >= 3
  /\ Len(fetch["p1"].messages) = HistLen

\* C5 (as claimed): the retries of a throttled page request are bounded, so
\* every running fetch eventually returns.
C5_BoundedThrottleRecovery == Fetching("p1") ~> ~Fetching("p1")

\* C6: the step after a 429 sends the same request again (same channel, limit
\* and before-cursor), one request only, not before the retry-after delay
\* (5 when the header is absent) has passed on the saturating clock; and the
\* step that receives a 429 leaves cursor and accumulated messages alone.
C6_ThrottleRetry ==
  [][LET f == fetch["p1"]
         g == fetch'["p1"]
         delay == IF f.rsp.retry_after = {} THEN 5
                  ELSE CHOOSE v \in f.rsp.retry_after : TRUE
     IN /\ (Fetching("p1") /\ f.rsp.status = 429) =>
             /\ g.req.channel = f.req.channel
             /\ g.req.limit = f.req.limit
             /\ g.req.before = f.req.before
             /\ (f.nreq < MaxReq => g.nreq = f.nreq + 1)
             /\ g.req.at >= Clamp(f.rsp.at + delay)
        /\ (Fetching("p1") /\ g.rsp.status = 429) =>
             /\ g.messages = f.messages
             /\ g.before_id = f.before_id
             /\ main'["p1"].pc = "fetch"]_vars

\* a 429 without retry-after, then a 200 page for the same cursor
C6_Witness ==
  /\ fetch["p1"].prev_status = 429
  /\ fetch["p1"].rsp.status = 200
  /\ fetch["p1"].rsp.page # <<>>
  /\ fetch["p1"].req.before # None
  /\ fetch["p1"].req.at < MaxTime

\* C7: with a cap N > 0 on a channel of at least N messages, a fetch that met
\* no error returns exactly the N newest messages, newest first, and the loop
\* never goes round again once N or more are accumulated.
C7_CapRespected ==
  LET m == main["p1"]
      f == fetch["p1"]
      N == m.max_messages
      h == History(m.channel_id)
  IN (N > 0 /\ m.channel_id # None /\ Len(h) >= N) =>
       /\ (Returned("p1") /\ ~LastWasError(f)) => f.messages = SubSeq(h, 1, N)
       /\ Fetching("p1") => Len(f.messages) < N

\* the last page took the count from 1 to 3, above the cap of 2
C7_Witness ==
  /\ Returned("p1")
  /\ main["p1"].max_messages = 2
  /\ Len(fetch["p1"].messages) = 2
  /\ fetch["p1"].nreq >= 2
  /\ Len(fetch["p1"].rsp.page) = 2
  /\ fetch["p1"].prev_status = 200

\* C8: a step whose response is neither 200 nor 429, or that gets no response,
\* ends the loop with the accumulated messages unchanged and returns them (it
\* does not raise); and no request is sent once the loop has ended.
C8_PartialResults ==
  [][LET f == fetch["p1"]
         g == fetch'["p1"]
     IN /\ (Fetching("p1") /\ g.nreq > 0 /\ LastWasError(g)) =>
             /\ main'["p1"].pc = "fetched"
             /\ g.messages = f.messages
        /\ ~Fetching("p1") => (g.req = f.req \/ g = NewFetch)]_vars

\* a 500 after a successful page: the page is what is returned
C8_Witness ==
  /\ Returned("p1")
  /\ fetch["p1"].rsp.status = 500
  /\ Len(fetch["p1"].messages) >= 1
  /\ fetch["p1"].prev_status = 200

\* C10: when the first response of a fetch is a 200 with an empty list, the
\* fetch has returned the empty sequence after that one request.
C10_EmptyHistory ==
  LET f == fetch["p1"]
  IN (f.nreq = 1 /\ ~f.rsp.failed /\ f.rsp.status = 200 /\ f.rsp.page = <<>>) =>
       /\ Returned("p1")
       /\ f.messages = <<>>

C10_Witness ==
  /\ Returned("p1")
  /\ main["p1"].channel_id = "B"
  /\ fetch["p1"].nreq = 1
  /\ fetch["p1"].rsp.status = 200
  /\ fetch["p1"].rsp.page = <<>>


\* ---------------------------------------------------- claims on the sink
\* no two message rows carry the same id in the first column
Unique(rows) ==
  \A i, j \in DataRows(rows) : rows[i][1] = rows[j][1] => i = j

\* C1: when an add_message loop in which no sink call failed follows, with
\* no other loop between, such a loop over the same messages, it counts 0
\* newly written rows and leaves as many message rows in the sheet as the
\* first one left.
C1_IdempotentSync ==
  obs.last_sync.repeat =>
    /\ obs.last_sync.count = 0
    /\ obs.last_sync.data = obs.last_sync.prev_data

\* two matched messages were synced by one loop and again by the next
C1_Witness ==
  /\ obs.last_sync.repeat
  /\ Cardinality(obs.last_sync.ids) >= 2
  /\ obs.last_sync.data >= 2

\* C2 (as claimed): a sheet that is not empty holds exactly one header row,
\* and it is the first row.
C2_HeaderWriteOnce == sheet # <<>> => HeaderRows(sheet) = {1}

C9_DuplicateByInterleaving ==
  (~Unique(sheet) /\ ~obs.find_failed) => obs.raced

\* two rows for one id, and no sink call failed at all
C9_Witness ==
  /\ ~Unique(sheet)
  /\ obs.faults = 0
  /\ obs.raced


\* C19: when the lookup of a message id fails, add_message does not stop: the
\* append of the row is its next sink call, and unless that call fails too
\* the row is added to the sheet, whether or not the id is there already.
C19_FailedCheckMeansAbsent ==
  [][\A p \in Procs :
       LET m == main[p]
           n == main'[p]
       IN /\ (m.pc = "add" /\ n # m /\ obs'.faults > obs.faults) =>
               (n.pc = "append" /\ n.k = m.k /\ sheet' = sheet)
          /\ (m.pc = "append" /\ n # m /\ obs'.faults = obs.faults) =>
               sheet' = Append(sheet, Row(m.filtered_messages[m.k + 1],
                                          m.channel_info))]_vars

\* a lookup failed and the sheet holds two rows for one id
C19_Witness ==
  /\ obs.find_failed
  /\ obs.faults = 1
  /\ ~Unique(sheet)

\* C20: a run's count of newly written rows goes up exactly when the run adds
\* a message row to the sheet; each message gets one existence lookup and,
\* after it, at most one append_row call, failed or not; so the count of the
\* first run on an empty sheet is the number of message rows in the sheet.
C20_WriteCountFaithful ==
  /\ []((main["p2"].pc = "idle" /\ main["p2"].outcome = "none"
          /\ main["p1"].pc # "idle") =>
           main["p1"].new_messages_count = Cardinality(DataRows(sheet)))
  /\ [][\A p \in Procs :
          LET m == main[p]
              n == main'[p]
              d == Cardinality(DataRows(sheet')) - Cardinality(DataRows(sheet))
          IN /\ (m.pc # "idle" /\ n.pc # "idle" /\ n # m) =>
                  n.new_messages_count = m.new_messages_count + d
             /\ (m.pc = "add" /\ n # m) =>
                  /\ sheet' = sheet
                  /\ (n.pc = "append" /\ n.k = m.k) \/ n.k = m.k + 1
             /\ (m.pc = "append" /\ n # m) =>
                  /\ n.k = m.k + 1
                  /\ n.pc # "append"
                  /\ Len(sheet') <= Len(sheet) + 1]_vars

\* of two matched messages one append failed: 1 is counted, 1 row is there
C20_Witness ==
  /\ main["p1"].pc = "report"
  /\ main["p2"].outcome = "none"
  /\ obs.faults = 1
  /\ ~obs.find_failed
  /\ main["p1"].total_messages_processed = 2
  /\ main["p1"].new_messages_count = 1
  /\ Cardinality(DataRows(sheet)) = 1

\* ------------------------------------------------ claims on the keyword filter
\* the same letter, whatever the case
SameLetter(a, b) ==
  a = b \/ \E i \in 1..26 : {a, b} = {UpperChars[i], LowerChars[i]}

\* k occurs in text as a substring, compared without regard to case
OccursIn(k, text) ==
  \E off \in 0..(Len(text) - Len(k)) :
    \A j \in 1..Len(k) : SameLetter(k[j], text[off + j])

\* the configured keywords that occur in text, in the order of the list
Hits(text) == SelectSeq(TUTORING_KEYWORDS, LAMBDA k : OccursIn(k, text))

\* the j-th smallest element of a set of numbers
Nth(S, j) == CHOOSE i \in S : Cardinality({x \in S : x <= i}) = j

\* C11: the messages filter_messages returns are exactly the input messages
\* in which some configured keyword occurs (case ignored), in the order of
\* the input, each unchanged but for the list it carries, which holds every
\* configured keyword that occurs in it (lower-cased, in the order of the
\* configuration).
C11_KeywordMatching ==
  [][main["p1"].pc = "fetched" =>
       LET in == fetch["p1"].messages
           out == main'["p1"].filtered_messages
           S == {i \in 1..Len(in) : Hits(in[i].content) # <<>>}
       IN /\ Len(out) = Cardinality(S)
          /\ \A j \in 1..Len(out) :
               LET message == in[Nth(S, j)]
                   hits == Hits(message.content)
               IN /\ \A key \in DOMAIN message : out[j][key] = message[key]
                  /\ DOMAIN out[j] = DOMAIN message \cup {"matched_keywords"}
                  /\ out[j].matched_keywords =
                       [n \in 1..Len(hits) |-> Lower(hits[n])]]_vars

\* of a batch of two, the filter kept the one message that names two
\* keywords and dropped the other
C11_Witness ==
  /\ main["p1"].pc = "add"
  /\ main["p1"].k = 0
  /\ main["p1"].max_messages = 2
  /\ Len(main["p1"].filtered_messages) = 1
  /\ Len(main["p1"].filtered_messages[1].matched_keywords) = 2


\* ------------------------------------------------------- claims on main
\* where main stands while it is in its loop over the channels
LoopPcs == {"g_loop", "info", "fetch", "fetched", "raised", "add", "append"}

\* C12: a run that is in its loop over the channels stays in it, whatever
\* fails, until the list is used up, and only then reports its counts; it
\* takes the channels one at a time, in the order of the list, each at the
\* head of the loop.
C12_RunCompletes ==
  [][\A p \in Procs :
       LET m == main[p]
           n == main'[p]
       IN m.pc \in LoopPcs =>
            /\ n.pc \in LoopPcs \cup {"report"}
            /\ n.pc = "report" =>
                 /\ m.pc = "g_loop" /\ m.urls = <<>>
                 /\ n.new_messages_count = m.new_messages_count
                 /\ n.total_messages_processed = m.total_messages_processed
            /\ n.urls # m.urls =>
                 /\ m.pc = "g_loop" /\ n.pc = "info"
                 /\ n.urls = Tail(m.urls)
                 /\ n.channel_id = extract_channel_id(Head(m.urls))
            /\ m.pc # "g_loop" => n.channel_id = m.channel_id]_vars

\* the lookup for the first channel failed, and the run went on to sync the
\* next one and to report
C12_Witness ==
  /\ main["p1"].pc = "report"
  /\ main["p1"].errors >= 1
  /\ main["p1"].new_messages_count >= 1


\* C13: get_channel_info sends one channel lookup and, only for a channel of
\* a guild that answered 200, one guild lookup; a lookup answered with
\* another status leaves "Unknown" for the name(s) it did not resolve, and
\* whenever every lookup was answered the fetch of the channel is next.
C13_MetadataBestEffort ==
  [][\A p \in Procs :
       main[p].pc = "info" =>
         LET n == main'[p]
             l == n.lookups
             d == ChannelData(n.channel_id)
             answered == \A i \in 1..Len(l) : l[i] # "failed"
         IN /\ Len(l) \in {1, 2}
            /\ Len(l) = 2 <=> (l[1] = "200" /\ d.guild_id # "DM")
            /\ answered <=> n.pc = "fetch"
            /\ (answered /\ l[1] # "200") =>
                 n.channel_info.name = "Unknown"
                 /\ n.channel_info.guild_name = "Unknown"
            /\ (answered /\ l[1] = "200") => n.channel_info.name = d.name
            /\ (answered /\ Len(l) = 2) =>
                 n.channel_info.guild_name =
                   IF l[2] = "200" THEN GuildData(d.guild_id).name
                   ELSE "Unknown"]_vars

\* a row was written for a channel whose guild lookup was answered 404
C13_Witness ==
  /\ main["p1"].lookups = <<"200", "404">>
  /\ main["p1"].pc = "add"
  /\ \E i \in DataRows(sheet) : sheet[i][8] = "general" /\ sheet[i][9] = "Unknown"


\* C14: a run gets past its start only with a token that is not empty and
\* with a channel id that is not blank; a run that does not get past it
\* sends no request and writes nothing: sheet, clock, scraper and fetch
\* state are as they were.
C14_UpFrontRejection ==
  [][\A p \in Procs :
       LET m == main[p]
           n == main'[p]
       IN (m.pc = "idle" /\ n # m) =>
            IF n.pc = "idle"
            THEN /\ n.outcome = "rejected"
                 /\ UNCHANGED <<sheet, now, scraper, fetch, obs>>
            ELSE /\ n.token # ""
                 /\ \E i \in 1..Len(n.urls) : ~IsBlank(n.urls[i])
                 /\ n.pc = "mgr"
                 /\ UNCHANGED <<sheet, now, obs>>]_vars

\* the first run was turned away with the sheet untouched; the second was let in
C14_Witness ==
  /\ main["p1"].outcome = "rejected"
  /\ main["p1"].pc = "idle"
  /\ main["p2"].pc = "mgr"
  /\ sheet = <<>>


\* --------------------------------------------- claims on the rate-limit state
\* C15 (as claimed): every fetch_messages call starts with a remaining budget
\* above 0, and its first request is not delayed by pacing, whatever the
\* fetches before it on the same scraper observed.
C15_FreshBudgetPerFetch ==
  \A p \in Procs :
    /\ (Fetching(p) /\ fetch[p].nreq = 0) => scraper[p].rate_limit_remaining > 0
    /\ fetch[p].nreq = 1 => fetch[p].req.paced = 0

\* C18: a response of any status sets the remaining budget to the value of
\* its remaining header, or to 5 when it has none, and sets reset_at to the
\* time of the response plus its reset-after header when it has one, leaving
\* reset_at alone when it has none; a request that gets no response leaves
\* both as they were.
C18_RateLimitObservation ==
  [][Fetching("p1") =>
       LET s == scraper["p1"]
           t == scraper'["p1"]
           r == fetch'["p1"].rsp
       IN IF r.failed
          THEN t = s
          ELSE /\ t.rate_limit_remaining =
                    (IF r.remaining = {} THEN 5 ELSE CHOOSE v \in r.remaining : TRUE)
               /\ t.rate_limit_reset =
                    (IF r.reset_after = {} THEN s.rate_limit_reset
                     ELSE r.at + (CHOOSE v \in r.reset_after : TRUE))]_vars

\* a 500 that carried both headers was observed before the loop ended
C18_Witness ==
  /\ Returned("p1")
  /\ fetch["p1"].rsp.status = 500
  /\ fetch["p1"].rsp.remaining = {0}
  /\ fetch["p1"].rsp.reset_after = {2}
  /\ scraper["p1"].rate_limit_remaining = 0
  /\ scraper["p1"].rate_limit_reset = fetch["p1"].rsp.at + 2

\* C17: every page request, a retry after a 429 included, is sent at once
\* when the remaining budget is above 0, and after a sleep of
\* max(0, reset_at - now) when it is not, so that it is never sent before
\* reset_at (on the saturating clock).
C17_PacingBeforeEveryCall ==
  [][Fetching("p1") =>
       LET s == scraper["p1"]
           g == fetch'["p1"]
       IN /\ g.req.at = Clamp(now + g.req.paced)
          /\ s.rate_limit_remaining > 0 => g.req.paced = 0
          /\ s.rate_limit_remaining <= 0 =>
               /\ g.req.at = Clamp(Max(now, s.rate_limit_reset))
               /\ g.req.at >= Clamp(s.rate_limit_reset)]_vars

\* the retry of a throttled request waited for the reset time
C17_Witness ==
  /\ fetch["p1"].prev_status = 429
  /\ fetch["p1"].req.paced > 0
  /\ fetch["p1"].rsp.status = 200


\* ---------------------------------------------------- claims on the cursor
\* id is the id of a message of channel c older than the message at cursor
OlderThan(c, id, cursor) ==
  /\ IndexOf(History(c), id) > 0
  /\ cursor = None \/ IndexOf(History(c), id) > IndexOf(History(c), cursor)

\* C16: a fetch_messages call begins with no cursor and sends its first
\* request without one; every request carries the cursor as it stands; a 200
\* with a page that is not empty sets the cursor to the id of the last
\* message of the page, which is older than the cursor before; any other
\* response, or none, leaves the cursor as it is.
C16_CursorMonotone ==
  [][LET f == fetch["p1"]
         g == fetch'["p1"]
     IN /\ (~Fetching("p1") /\ main'["p1"].pc = "fetch") =>
             (g.before_id = None /\ g.nreq = 0)
        /\ Fetching("p1") =>
             /\ f.nreq = 0 => g.req.before = None
             /\ g.req.before = f.before_id
             /\ IF ~g.rsp.failed /\ g.rsp.status = 200 /\ g.rsp.page # <<>>
                THEN /\ g.before_id = g.rsp.page[Len(g.rsp.page)].id
                     /\ OlderThan(main["p1"].channel_id, g.before_id,
                                  f.before_id)
                ELSE g.before_id = f.before_id]_vars

\* the second page, two messages long, moved the cursor to the oldest message
C16_Witness ==
  /\ Fetching("p1")
  /\ fetch["p1"].req.before # None
  /\ fetch["p1"].rsp.status = 200
  /\ Len(fetch["p1"].rsp.page) = 2
  /\ fetch["p1"].before_id = IdTable[1]


\* ------------------------------------------------ claims on the fetched result
\* C21: at every point of a fetch_messages call, and when it has returned,
\* whatever mix of 200, 429, other statuses and failed requests it met, the
\* messages gathered are the newest ones of the channel's history, in the
\* order of the history, none left out and none twice.
C21_ResultIsPrefix ==
  LET m == main["p1"]
      f == fetch["p1"]
      h == History(m.channel_id)
  IN m.pc \in {"fetch", "fetched"} =>
       /\ Len(f.messages) <= Len(h)
       /\ f.messages = SubSeq(h, 1, Len(f.messages))
       /\ \A i, j \in 1..Len(f.messages) :
            f.messages[i].id = f.messages[j].id => i = j

\* a walk that got a page, was throttled, and then ended early on a request
\* that failed, with a part of the history in hand
C21_Witness ==
  /\ Returned("p1")
  /\ fetch["p1"].rsp.failed
  /\ fetch["p1"].prev_status = 429
  /\ Len(fetch["p1"].messages) >= 1
  /\ Len(fetch["p1"].messages) < HistLen

====
